---------------------------- MODULE Spec2Model ----------------------------
(***************************************************************************)
(* A model of src/image-processor.js: isHeicFile, convertHeicToJpeg and    *)
(* resizeAndConvertToJpeg, together with the browser capabilities they     *)
(* drive (the heic2any decoder, FileReader, Image and canvas).             *)
(*                                                                         *)
(* JavaScript strings that the code inspects (file names, media types) are *)
(* sequences of one-character strings.  Error messages are sequences of    *)
(* string fragments, so that concatenation is \o.                          *)
(***************************************************************************)
EXTENDS Integers, Sequences, FiniteSets, TLC

(***************************************************************************)
(* Bounds of the model.                                                    *)
(***************************************************************************)
\* longest file name handed to isHeicFile / convertHeicToJpeg on their own
MaxNameLen == 5
\* largest image side and largest maxSize in the resize-only specification
MaxDim == 22
\* largest image side and largest maxSize in the whole-pipeline specification
MaxPipeDim == 3
\* number of calls of resizeAndConvertToJpeg that may be in flight
NumCalls == 2

Calls == 1 .. NumCalls

(***************************************************************************)
(* Strings.                                                                *)
(***************************************************************************)
\* String.prototype.toLowerCase on one character of the model's alphabet
LowerChar(ch) ==
    CASE ch = "H" -> "h"
      [] ch = "E" -> "e"
      [] ch = "I" -> "i"
      [] ch = "C" -> "c"
      [] ch = "F" -> "f"
      [] ch = "J" -> "j"
      [] ch = "P" -> "p"
      [] ch = "G" -> "g"
      [] ch = "A" -> "a"
      [] OTHER -> ch

\* the case folding of a regular expression with the i flag (Canonicalize:
\* toUpperCase) on one character of the model's alphabet
UpperChar(ch) ==
    CASE ch = "h" -> "H"
      [] ch = "e" -> "E"
      [] ch = "i" -> "I"
      [] ch = "c" -> "C"
      [] ch = "f" -> "F"
      [] ch = "j" -> "J"
      [] ch = "p" -> "P"
      [] ch = "g" -> "G"
      [] ch = "a" -> "A"
      [] OTHER -> ch

toLowerCase(s) == [i \in 1 .. Len(s) |-> LowerChar(s[i])]

Canonicalize(s) == [i \in 1 .. Len(s) |-> UpperChar(s[i])]

endsWith(s, suffix) ==
    /\ Len(s) >= Len(suffix)
    /\ SubSeq(s, Len(s) - Len(suffix) + 1, Len(s)) = suffix

DotHeic == <<".", "h", "e", "i", "c">>
DotHeif == <<".", "h", "e", "i", "f">>
DotJpg == <<".", "j", "p", "g">>
ImageHeic == <<"i", "m", "a", "g", "e", "/", "h", "e", "i", "c">>
ImageHeif == <<"i", "m", "a", "g", "e", "/", "h", "e", "i", "f">>
ImageHeicSequence == ImageHeic \o <<"-", "s", "e", "q", "u", "e", "n", "c", "e">>
ImageJpeg == <<"i", "m", "a", "g", "e", "/", "j", "p", "e", "g">>
EmptyString == << >>

(***************************************************************************)
(* Values.  Every JavaScript value of the model is a record with a kind.   *)
(* The content of a blob or of a data URL is what the Image decoder makes  *)
(* of it: a raster of w by h pixels, or nothing decodable.                 *)
(***************************************************************************)
Raster(w, h) == [ok |-> TRUE, w |-> w, h |-> h]
Undecodable == [ok |-> FALSE, w |-> 0, h |-> 0]

File(name, type, content) ==
    [kind |-> "File", name |-> name, type |-> type, content |-> content]
DataUrl(content) == [kind |-> "string", content |-> content]
\* a value that is neither a File nor a string: null, a number, a plain Blob
OtherValue == [kind |-> "other"]
Blob(content) == [kind |-> "Blob", content |-> content]
ArrayOf(elems) == [kind |-> "Array", elems |-> elems]
\* undefined and null
Nullish == [kind |-> "nullish"]
StringValue(text) == [kind |-> "text", text |-> text]
ErrorValue(name, message) == [kind |-> "error", name |-> name, message |-> message]
NoValue == [kind |-> "none"]

(***************************************************************************)
(* isHeicFile (lines 10-18).                                               *)
(***************************************************************************)
\* isHeicFile without the toLowerCase of lines 12 and 13
isHeicFileCaseSensitive(file) ==
    IF file.kind # "File" THEN FALSE
    ELSE LET fileName == file.name
             mimeType == file.type
         IN  \/ endsWith(fileName, DotHeic)
             \/ endsWith(fileName, DotHeif)
             \/ mimeType = ImageHeic
             \/ mimeType = ImageHeif

isHeicFile(file) ==
    IF file.kind # "File" THEN FALSE
    ELSE LET fileName == toLowerCase(file.name)
             mimeType == toLowerCase(file.type)
         IN  \/ endsWith(fileName, DotHeic)
             \/ endsWith(fileName, DotHeif)
             \/ mimeType = ImageHeic
             \/ mimeType = ImageHeif

\* the replacement of line 48 without the i flag
ReplaceHeicExtensionCaseSensitive(name) ==
    IF endsWith(name, DotHeic) \/ endsWith(name, DotHeif)
    THEN SubSeq(name, 1, Len(name) - 5) \o DotJpg
    ELSE name

\* heicFile.name.replace(/\.(heic|heif)$/i, '.jpg') (line 48)
ReplaceHeicExtension(name) ==
    IF /\ Len(name) >= 5
       /\ name[Len(name) - 4] = "."
       /\ Canonicalize(SubSeq(name, Len(name) - 3, Len(name)))
             \in {Canonicalize(<<"h", "e", "i", "c">>), Canonicalize(<<"h", "e", "i", "f">>)}
    THEN SubSeq(name, 1, Len(name) - 5) \o DotJpg
    ELSE name

\* the new File with the type of the original
JpegFileOfKeepingType(heicFile, blob) ==
    File(ReplaceHeicExtension(heicFile.name), heicFile.type, blob.content)

\* new File([blob], name, {type: 'image/jpeg', lastModified: Date.now()})
\* (lines 48-51): the new handle holds the decoder's blob
JpegFileOf(heicFile, blob) ==
    File(ReplaceHeicExtension(heicFile.name), ImageJpeg, blob.content)

(***************************************************************************)
(* Math.round((s / L) * m) for integers 0 < s <= L and m > 0 (lines 93 and *)
(* 98), in IEEE-754 double arithmetic.  The exact value s*m/L is rounded   *)
(* half up, except that when it lies exactly half way between two integers *)
(* the rounding errors of the division and of the multiplication decide:   *)
(* the quotient fl(s/L) is s/L + eps/(L * 2^p), where p = 52 + j, j is the *)
(* least exponent with s * 2^j >= L, and eps is -r or L - r for            *)
(* r = (s * 2^p) mod L; the product is then rounded to the nearest double  *)
(* (ties to even) and compared with k + 1/2.                               *)
(***************************************************************************)
RECURSIVE Pow2(_)
Pow2(n) == IF n <= 0 THEN 1 ELSE 2 * Pow2(n - 1)

\* 2^p mod L
RECURSIVE Pow2Mod(_, _)
Pow2Mod(p, L) == IF p = 0 THEN 1 % L ELSE (2 * Pow2Mod(p - 1, L)) % L

RECURSIVE FloorLog2(_)
FloorLog2(n) == IF n < 2 THEN 0 ELSE 1 + FloorLog2(n \div 2)

\* the least j with s * 2^j >= L: the quotient s/L lies in [2^-j, 2^(1-j))
RECURSIVE QuotientShift(_, _)
QuotientShift(s, L) == IF s >= L THEN 0 ELSE 1 + QuotientShift(2 * s, L)

\* the width of the mantissa of a double, without the hidden bit
MantissaBits == 52

\* whether fl(fl(s/L) * m) < k + 1/2 when s*m/L = k + 1/2 exactly
ProductFallsShort(s, L, m, k) ==
    LET j == QuotientShift(s, L)
        r == (s * Pow2Mod(MantissaBits + j, L)) % L
        \* the doubles just below k + 1/2 are 2^(g - 52) apart
        g == IF k = 0 THEN 0 - 2 ELSE FloorLog2(2 * k + 1) - 1
        d == g + j - 1
    IN  /\ r # 0
        /\ 2 * r < L
        /\ IF d >= 0 THEN m * r > L * Pow2(d)
                     ELSE m * r * Pow2(0 - d) > L

MathRoundScaled(s, L, m) ==
    LET n == s * m
    IN  IF (2 * n) % L = 0 /\ ((2 * n) \div L) % 2 = 1
        THEN LET k == ((2 * n) \div L) \div 2
             IN  IF ProductFallsShort(s, L, m, k) THEN k ELSE k + 1
        ELSE (2 * n + L) \div (2 * L)

(***************************************************************************)
(* The new dimensions computed by img.onload (lines 84-101).               *)
(***************************************************************************)
\* TargetSize without line 94: the width of a landscape image is left as it is
TargetSizeKeepingWidth(imgWidth, imgHeight, maxSize) ==
    LET isLandscape == imgWidth > imgHeight
    IN  IF isLandscape
        THEN IF imgWidth > maxSize
             THEN [width |-> imgWidth,
                   height |-> MathRoundScaled(imgHeight, imgWidth, maxSize)]
             ELSE [width |-> imgWidth, height |-> imgHeight]
        ELSE IF imgHeight > maxSize
             THEN [width |-> MathRoundScaled(imgWidth, imgHeight, maxSize),
                   height |-> maxSize]
             ELSE [width |-> imgWidth, height |-> imgHeight]

\* TargetSize without the tests of lines 92 and 97: every image is scaled to
\* maxSize, the small ones up
TargetSizeUpscaling(imgWidth, imgHeight, maxSize) ==
    LET isLandscape == imgWidth > imgHeight
    IN  IF isLandscape
        THEN [width |-> maxSize,
              height |-> MathRoundScaled(imgHeight, imgWidth, maxSize)]
        ELSE [width |-> MathRoundScaled(imgWidth, imgHeight, maxSize),
              height |-> maxSize]

TargetSize(imgWidth, imgHeight, maxSize) ==
    LET isLandscape == imgWidth > imgHeight
    IN  IF isLandscape
        THEN IF imgWidth > maxSize
             THEN [width |-> maxSize,
                   height |-> MathRoundScaled(imgHeight, imgWidth, maxSize)]
             ELSE [width |-> imgWidth, height |-> imgHeight]
        ELSE IF imgHeight > maxSize
             THEN [width |-> MathRoundScaled(imgWidth, imgHeight, maxSize),
                   height |-> maxSize]
             ELSE [width |-> imgWidth, height |-> imgHeight]

(***************************************************************************)
(* State.                                                                  *)
(*   env    what the environment provides: a global binding heic2any, a    *)
(*          window object, a property window.heic2any                      *)
(*   call   per call of resizeAndConvertToJpeg: its locals, the objects it *)
(*          created (reader, img, canvas), the promise it returned, and    *)
(*          counters of what it has started, and what the decoder and the  *)
(*          reader answered                                                *)
(*   probe  a direct call of isHeicFile: its argument and its result       *)
(***************************************************************************)
VARIABLES env, call, probe

vars == <<env, call, probe>>

Pending == [state |-> "pending", value |-> NoValue]
Fulfilled(v) == [state |-> "fulfilled", value |-> v]
Rejected(e) == [state |-> "rejected", value |-> e]

IdleCall ==
    [pc |-> "idle",
     input |-> NoValue,
     maxSize |-> 0,
     processedInput |-> NoValue,
     decoder |-> "notCalled",
     decoderCalls |-> 0,
     decoderAnswer |-> NoValue,
     converted |-> [state |-> "none", value |-> NoValue],
     reader |-> "none",
     readerFile |-> NoValue,
     readerError |-> NoValue,
     readStarts |-> 0,
     img |-> "none",
     imgSrc |-> NoValue,
     decodeStarts |-> 0,
     canvas |-> [state |-> "none", width |-> 0, height |-> 0],
     draws |-> 0,
     uncaught |-> NoValue,
     promise |-> Pending,
     resolveCalls |-> 0,
     rejectCalls |-> 0]

\* the environments: window.heic2any needs a window
Environments ==
    {e \in [heic2any : BOOLEAN, window : BOOLEAN, windowHeic2any : BOOLEAN] :
        e.windowHeic2any => e.window}

Browser == [heic2any |-> TRUE, window |-> TRUE, windowHeic2any |-> TRUE]

IdleProbe == [called |-> FALSE, arg |-> NoValue, ret |-> FALSE]

Init ==
    /\ env \in Environments
    /\ call = [c \in Calls |-> IdleCall]
    /\ probe = IdleProbe

(***************************************************************************)
(* The promise returned by the call.  resolve and reject of a settled      *)
(* promise have no effect; an uncaught throw of the async function rejects *)
(* it.                                                                     *)
(***************************************************************************)
resolve(cs, v) ==
    [cs EXCEPT !.promise = IF @.state = "pending" THEN Fulfilled(v) ELSE @,
               !.resolveCalls = @ + 1]

reject(cs, e) ==
    [cs EXCEPT !.promise = IF @.state = "pending" THEN Rejected(e) ELSE @,
               !.rejectCalls = @ + 1]

(***************************************************************************)
(* Errors.                                                                 *)
(***************************************************************************)
DependencyMissing ==
    ErrorValue("Error",
               <<"heic2any library is not loaded. Please include the library script.">>)
WindowNotDefined == ErrorValue("ReferenceError", <<"window is not defined">>)
NoResult == ErrorValue("Error", <<"Conversion returned no result">>)
ReadFailure == ErrorValue("Error", <<"Failed to read file">>)
DecodeFailure == ErrorValue("Error", <<"Failed to load image">>)
InvalidInput == ErrorValue("Error", <<"Invalid input: expected File or data URL string">>)
MessageOfNullish ==
    ErrorValue("TypeError", <<"Cannot read properties of undefined (reading 'message')">>)

\* error.message || error, as concatenated to a string (line 56): an Error
\* with an empty message prints as its name, a string is itself
MessageOrSelf(error) ==
    IF error.kind = "error"
    THEN IF error.message # << >> THEN error.message ELSE <<error.name>>
    ELSE error.text

\* the catch block of convertHeicToJpeg (lines 54-57): reading .message of
\* undefined or null throws a TypeError out of the block
CatchConversion(error) ==
    IF error.kind = "nullish"
    THEN Rejected(MessageOfNullish)
    ELSE Rejected(ErrorValue("Error",
                             <<"Failed to convert HEIC file: ">> \o MessageOrSelf(error)))

(***************************************************************************)
(* What the external decoder may do when called with the file: throw at    *)
(* once, or return a value or a promise that later fulfils or rejects.     *)
(* heic2any yields one blob or an array of blobs; the decoded picture is   *)
(* the file's.                                                             *)
(***************************************************************************)
ThrownValues ==
    {ErrorValue("Error", <<"ERR_LIBHEIF format not supported">>),
     ErrorValue("Error", << >>),
     StringValue(<<"ERR_USER library only accessible in browser">>),
     Nullish}

DecoderResults(heicFile) ==
    {Blob(heicFile.content),
     ArrayOf(<<Blob(heicFile.content)>>),
     ArrayOf(<<Blob(heicFile.content), Blob(Undecodable)>>),
     ArrayOf(<< >>),
     ArrayOf(<<Nullish>>),
     Nullish}

DecoderAnswers(heicFile) ==
    {[how |-> "fulfil", value |-> v] : v \in DecoderResults(heicFile)}
        \cup {[how |-> "reject", value |-> e] : e \in ThrownValues}

(***************************************************************************)
(* convertHeicToJpeg up to its await (lines 25-38).  thrown is what the    *)
(* decoder throws when called, NoValue when it returns.                    *)
(***************************************************************************)
ConvertStart(cs, thrown) ==
    IF ~env.heic2any /\ env.window /\ ~env.windowHeic2any
    THEN [cs EXCEPT !.pc = "awaitConvert", !.converted = Rejected(DependencyMissing)]
    ELSE IF ~env.heic2any /\ ~env.window
    THEN \* line 31 reads window.heic2any where there is no window
         [cs EXCEPT !.pc = "awaitConvert", !.converted = Rejected(WindowNotDefined)]
    ELSE IF thrown # NoValue
    THEN [cs EXCEPT !.pc = "awaitConvert",
                    !.decoder = "threw",
                    !.decoderCalls = @ + 1,
                    !.decoderAnswer = [how |-> "throw", value |-> thrown],
                    !.converted = CatchConversion(thrown)]
    ELSE [cs EXCEPT !.pc = "awaitDecoder",
                    !.decoder = "pending",
                    !.decoderCalls = @ + 1,
                    !.converted = Pending]

\* convertHeicToJpeg calling the decoder a second time when its first
\* answer is a rejection
ConvertFinishRetrying(cs, answer) ==
    IF answer.how = "reject" /\ cs.decoderCalls < 2
    THEN [cs EXCEPT !.pc = "awaitDecoder",
                    !.decoder = "pending",
                    !.decoderCalls = @ + 1]
    ELSE IF answer.how = "reject"
    THEN [cs EXCEPT !.pc = "awaitConvert",
                    !.decoder = "rejected",
                    !.decoderAnswer = answer,
                    !.converted = CatchConversion(answer.value)]
    ELSE [cs EXCEPT !.pc = "awaitConvert",
                    !.decoder = "fulfilled",
                    !.decoderAnswer = answer,
                    !.converted = Fulfilled(JpegFileOf(cs.input, answer.value))]

\* convertHeicToJpeg after its await (lines 34-57)
ConvertFinish(cs, answer) ==
    IF answer.how = "reject"
    THEN [cs EXCEPT !.pc = "awaitConvert",
                    !.decoder = "rejected",
                    !.decoderAnswer = answer,
                    !.converted = CatchConversion(answer.value)]
    ELSE LET convertedResult == answer.value
             blob == IF convertedResult.kind = "Array"
                     THEN IF Len(convertedResult.elems) >= 1
                          THEN convertedResult.elems[1]
                          ELSE Nullish
                     ELSE convertedResult
         IN  IF blob.kind = "nullish"
             THEN [cs EXCEPT !.pc = "awaitConvert",
                             !.decoder = "fulfilled",
                             !.decoderAnswer = answer,
                             !.converted = CatchConversion(NoResult)]
             ELSE [cs EXCEPT !.pc = "awaitConvert",
                             !.decoder = "fulfilled",
                             !.decoderAnswer = answer,
                             !.converted = Fulfilled(JpegFileOf(cs.input, blob))]

\* the executor without its last branch (lines 135-137): an input of
\* another type is left alone
ExecutorStartWithoutElse(cs) ==
    IF cs.processedInput.kind = "File"
    THEN [cs EXCEPT !.pc = "reading",
                    !.reader = "loading",
                    !.readerFile = cs.processedInput,
                    !.readStarts = @ + 1]
    ELSE IF cs.processedInput.kind = "string"
    THEN [cs EXCEPT !.pc = "decoding",
                    !.img = "loading",
                    !.imgSrc = cs.processedInput,
                    !.decodeStarts = @ + 1]
    ELSE [cs EXCEPT !.pc = "done"]

(***************************************************************************)
(* The executor of the promise (lines 79-138): the handlers are installed  *)
(* and the input is dispatched on its type.                                *)
(***************************************************************************)
ExecutorStart(cs) ==
    IF cs.processedInput.kind = "File"
    THEN [cs EXCEPT !.pc = "reading",
                    !.reader = "loading",
                    !.readerFile = cs.processedInput,
                    !.readStarts = @ + 1]
    ELSE IF cs.processedInput.kind = "string"
    THEN [cs EXCEPT !.pc = "decoding",
                    !.img = "loading",
                    !.imgSrc = cs.processedInput,
                    !.decodeStarts = @ + 1]
    ELSE reject([cs EXCEPT !.pc = "done"], InvalidInput)

(***************************************************************************)
(* Actions.                                                                *)
(***************************************************************************)
\* resizeAndConvertToJpeg(input, maxSize) is called and runs to its first
\* suspension (lines 69-74, or 69-138 when there is nothing to convert)
Invoke(c, inputs, sizes) ==
    /\ call[c].pc = "idle"
    /\ \E input \in inputs, maxSize \in sizes, thrown \in ThrownValues \cup {NoValue} :
          LET cs == [call[c] EXCEPT !.input = input,
                                    !.maxSize = maxSize,
                                    !.processedInput = input]
          IN  call' = [call EXCEPT ![c] =
                          IF input.kind = "File" /\ isHeicFile(input)
                          THEN ConvertStart(cs, thrown)
                          ELSE ExecutorStart(cs)]
    /\ UNCHANGED <<env, probe>>

\* the decoder answers and convertHeicToJpeg runs to its end (lines 34-57)
ConvertResume(c) ==
    /\ call[c].pc = "awaitDecoder"
    /\ \E answer \in DecoderAnswers(call[c].input) :
          call' = [call EXCEPT ![c] = ConvertFinish(@, answer)]
    /\ UNCHANGED <<env, probe>>

\* line 74 with its result dropped: the executor is given the original input
ResizeResumeWithOriginal(c) ==
    /\ call[c].pc = "awaitConvert"
    /\ LET cs == call[c]
       IN  call' = [call EXCEPT ![c] =
                       IF cs.converted.state = "rejected"
                       THEN reject([cs EXCEPT !.pc = "done"], cs.converted.value)
                       ELSE ExecutorStart(cs)]
    /\ UNCHANGED <<env, probe>>

\* the await of line 74 resumes: a rejection leaves the async function, a
\* converted file goes on to the executor (lines 74-138)
ResizeResume(c) ==
    /\ call[c].pc = "awaitConvert"
    /\ LET cs == call[c]
       IN  call' = [call EXCEPT ![c] =
                       IF cs.converted.state = "rejected"
                       THEN reject([cs EXCEPT !.pc = "done"], cs.converted.value)
                       ELSE ExecutorStart([cs EXCEPT !.processedInput =
                                                         cs.converted.value])]
    /\ UNCHANGED <<env, probe>>

\* reader.onload with one img shared by the calls: the source goes to every
\* img that is loading
ReaderOnloadIntoSharedImg(c) ==
    /\ call[c].pc = "reading"
    /\ LET cs == call[c]
       IN  call' = [d \in Calls |->
                       IF d = c
                       THEN [cs EXCEPT !.pc = "decoding",
                                       !.reader = "loaded",
                                       !.img = "loading",
                                       !.imgSrc = DataUrl(cs.readerFile.content),
                                       !.decodeStarts = @ + 1]
                       ELSE IF call[d].img = "loading"
                       THEN [call[d] EXCEPT !.imgSrc = DataUrl(cs.readerFile.content)]
                       ELSE call[d]]
    /\ UNCHANGED <<env, probe>>

\* reader.onload (lines 125-127)
ReaderOnload(c) ==
    /\ call[c].pc = "reading"
    /\ LET cs == call[c]
       IN  call' = [call EXCEPT ![c] =
                       [cs EXCEPT !.pc = "decoding",
                                  !.reader = "loaded",
                                  !.img = "loading",
                                  !.imgSrc = DataUrl(cs.readerFile.content),
                                  !.decodeStarts = @ + 1]]
    /\ UNCHANGED <<env, probe>>

\* what a failed read leaves in reader.error
ReaderErrors ==
    {ErrorValue("NotReadableError", <<"The requested file could not be read">>),
     ErrorValue("NotFoundError", <<"The requested file could not be found">>)}

\* reader.onerror that rejects and then hands the img a source all the same
ReaderOnerrorThenLoad(c) ==
    /\ call[c].pc = "reading"
    /\ \E error \in ReaderErrors :
          LET cs == call[c]
          IN  call' = [call EXCEPT ![c] =
                          reject([cs EXCEPT !.pc = "decoding",
                                            !.reader = "failed",
                                            !.readerError = error,
                                            !.img = "loading",
                                            !.imgSrc = DataUrl(cs.readerFile.content),
                                            !.decodeStarts = @ + 1],
                                 ReadFailure)]
    /\ UNCHANGED <<env, probe>>

\* reader.onerror (lines 128-130): the handler does not look at reader.error
ReaderOnerror(c) ==
    /\ call[c].pc = "reading"
    /\ \E error \in ReaderErrors :
          call' = [call EXCEPT ![c] =
                      reject([@ EXCEPT !.pc = "done",
                                       !.reader = "failed",
                                       !.readerError = error],
                             ReadFailure)]
    /\ UNCHANGED <<env, probe>>

\* canvas.toDataURL('image/jpeg', quality): a canvas without pixels exports
\* as "data:,", which is no image
toDataURL(width, height) ==
    DataUrl(IF width >= 1 /\ height >= 1 THEN Raster(width, height) ELSE Undecodable)

\* what the canvas may do: work, give no 2d context (ctx is null and
\* ctx.drawImage throws), or throw from toDataURL
CanvasFaults == {"none", "noContext", "exportThrows"}

\* the body of img.onload (lines 82-115); an exception leaves the handler
\* uncaught and neither resolve nor reject is called
OnloadBody(cs, fault) ==
    LET size == TargetSize(cs.imgSrc.content.w, cs.imgSrc.content.h, cs.maxSize)
    IN  IF fault = "noContext"
        THEN [cs EXCEPT !.pc = "done",
                        !.img = "loaded",
                        !.canvas = [state |-> "created",
                                    width |-> size.width, height |-> size.height],
                        !.uncaught = ErrorValue("TypeError",
                                                <<"Cannot read properties of null (reading 'drawImage')">>)]
        ELSE IF fault = "exportThrows"
        THEN [cs EXCEPT !.pc = "done",
                        !.img = "loaded",
                        !.canvas = [state |-> "drawn",
                                    width |-> size.width, height |-> size.height],
                        !.draws = @ + 1,
                        !.uncaught = ErrorValue("SecurityError",
                                                <<"The canvas may not be exported">>)]
        ELSE resolve([cs EXCEPT !.pc = "done",
                                !.img = "loaded",
                                !.canvas = [state |-> "drawn",
                                            width |-> size.width, height |-> size.height],
                                !.draws = @ + 1],
                     toDataURL(size.width, size.height))

\* img.onload (lines 82-115): the source decoded
ImgOnload(c) ==
    /\ call[c].pc = "decoding"
    /\ call[c].imgSrc.content.ok
    /\ \E fault \in CanvasFaults :
          call' = [call EXCEPT ![c] = OnloadBody(@, fault)]
    /\ UNCHANGED <<env, probe>>

\* img.onerror that rejects and draws on a canvas all the same
ImgOnerrorThenDraw(c) ==
    /\ call[c].pc = "decoding"
    /\ ~call[c].imgSrc.content.ok
    /\ call' = [call EXCEPT ![c] =
                   reject([@ EXCEPT !.pc = "done",
                                    !.img = "failed",
                                    !.canvas = [state |-> "drawn",
                                                width |-> 0, height |-> 0],
                                    !.draws = @ + 1],
                          DecodeFailure)]
    /\ UNCHANGED <<env, probe>>

\* img.onerror (lines 117-119): the source did not decode
ImgOnerror(c) ==
    /\ call[c].pc = "decoding"
    /\ ~call[c].imgSrc.content.ok
    /\ call' = [call EXCEPT ![c] =
                   reject([@ EXCEPT !.pc = "done", !.img = "failed"], DecodeFailure)]
    /\ UNCHANGED <<env, probe>>

\* isHeicFile(arg), called on its own
IsHeicFileCall(args) ==
    /\ ~probe.called
    /\ \E arg \in args :
          probe' = [called |-> TRUE, arg |-> arg, ret |-> isHeicFile(arg)]
    /\ UNCHANGED <<env, call>>

(***************************************************************************)
(* Inputs.                                                                 *)
(***************************************************************************)
\* the sequences over S of length at most n
SeqsUpTo(S, n) == UNION {[1 .. len -> S] : len \in 0 .. n}

\* the characters of the file names tried on isHeicFile and convertHeicToJpeg
NameAlphabet == {".", "h", "e", "i", "c", "f", "E"}
Names == SeqsUpTo(NameAlphabet, MaxNameLen)
\* the media types a File may declare (a File's type is in lower case)
Types == {ImageHeic, ImageHeif, ImageHeicSequence, ImageJpeg, EmptyString}

\* the Files of the given names and types
FilesOver(names, types, content) == {File(n, t, content) : n \in names, t \in types}

\* the arguments of the direct calls of isHeicFile that are no Files:
\* strings, and values that are neither
TextArgs(names) == {StringValue(n) : n \in names}
OtherArgs == {DataUrl(Undecodable), OtherValue, Nullish}

\* the inputs of the whole pipeline
PipeNames ==
    {<<"a", ".", "h", "e", "i", "c">>,
     <<"a", ".", "H", "E", "I", "F">>,
     <<"a", ".", "j", "p", "g">>}
PipeTypes == {ImageHeic, ImageJpeg, EmptyString}
PipeContents ==
    {Undecodable} \cup {Raster(w, h) : w \in 1 .. MaxPipeDim, h \in 1 .. MaxPipeDim}
PipeInputs ==
    {File(n, t, k) : n \in PipeNames, t \in PipeTypes, k \in PipeContents}
        \cup {DataUrl(k) : k \in PipeContents}
        \cup {OtherValue, Nullish}
PipeSizes == 1 .. MaxPipeDim

\* the inputs of the resize-only specification: data URLs of every raster
ResizeInputs == {DataUrl(Raster(w, h)) : w \in 1 .. MaxDim, h \in 1 .. MaxDim}
ResizeSizes == 1 .. MaxDim

\* the inputs of the conversion-only specification: Files of every name
ConvertInputs(names) == FilesOver(names, {ImageHeic, ImageJpeg}, Raster(1, 1))

\* the call that the single-call specifications follow
First == CHOOSE c \in Calls : \A d \in Calls : c <= d

(***************************************************************************)
(* Specifications.                                                         *)
(***************************************************************************)
\* one call of resizeAndConvertToJpeg, in every environment
Next ==
    \/ Invoke(First, PipeInputs, PipeSizes)
    \/ ConvertResume(First)
    \/ ResizeResume(First)
    \/ ReaderOnload(First)
    \/ ReaderOnerror(First)
    \/ ImgOnload(First)
    \/ ImgOnerror(First)

Spec == Init /\ [][Next]_vars

\* isHeicFile on its own
InitDetect == Init /\ env = Browser
NextDetect ==
    \/ IsHeicFileCall(FilesOver(Names, Types, Undecodable))
    \/ IsHeicFileCall(TextArgs(Names))
    \/ IsHeicFileCall(OtherArgs)
SpecDetect == InitDetect /\ [][NextDetect]_vars

\* the resize of a decoded image, over every raster up to MaxDim
InitResize == Init /\ env = Browser
NextResize ==
    \/ Invoke(First, ResizeInputs, ResizeSizes)
    \/ ImgOnload(First)
SpecResize == InitResize /\ [][NextResize]_vars

\* the conversion of a legacy file, over every name up to MaxNameLen
InitConvert == Init /\ env = Browser
NextConvert ==
    \/ Invoke(First, ConvertInputs(Names), {MaxPipeDim})
    \/ ConvertResume(First)
    \/ ResizeResume(First)
SpecConvert == InitConvert /\ [][NextConvert]_vars

\* the inputs of the calls that run concurrently: a legacy file, a JPEG
\* file, a data URL and a value of another type, each of another picture
PairInputs ==
    {File(<<"a", ".", "h", "e", "i", "c">>, ImageHeic, Raster(3, 1)),
     File(<<"a", ".", "j", "p", "g">>, ImageJpeg, Raster(1, 3)),
     DataUrl(Raster(3, 3)),
     DataUrl(Undecodable),
     OtherValue}
PairSizes == {2}

\* every call of Calls, in any interleaving of their suspension points
InitPair == Init /\ env = Browser
NextPair ==
    \E c \in Calls :
        \/ Invoke(c, PairInputs, PairSizes)
        \/ ConvertResume(c)
        \/ ResizeResume(c)
        \/ ReaderOnload(c)
        \/ ReaderOnerror(c)
        \/ ImgOnload(c)
        \/ ImgOnerror(c)
SpecPair == InitPair /\ [][NextPair]_vars

\* the call that is run on the output of the first
Second == CHOOSE c \in Calls : c # First /\ \A d \in Calls \ {First} : c <= d

\* resizeAndConvertToJpeg(output, maxSize) is called with the string that
\* call c resolved with and with the maxSize of call c
Rerun(c, d) ==
    /\ call[c].promise.state = "fulfilled"
    /\ Invoke(d, {call[c].promise.value}, {call[c].maxSize})

\* one call, and a second call on the first one's output
InitRerun == Init /\ env = Browser
NextRerun ==
    \/ Invoke(First, PipeInputs, PipeSizes)
    \/ ConvertResume(First)
    \/ ResizeResume(First)
    \/ ReaderOnload(First)
    \/ ReaderOnerror(First)
    \/ ImgOnload(First)
    \/ ImgOnerror(First)
    \/ Rerun(First, Second)
    \/ ImgOnload(Second)
    \/ ImgOnerror(Second)
SpecRerun == InitRerun /\ [][NextRerun]_vars

(***************************************************************************)
(* Properties.                                                             *)
(***************************************************************************)
Max(a, b) == IF a >= b THEN a ELSE b
Abs(a) == IF a >= 0 THEN a ELSE 0 - a

\* the decoded image of a call whose img.onload has run
Decoded(cs) == cs.imgSrc.content
HasCanvas(cs) == cs.canvas.state # "none"

\* C1: when the larger side of the decoded image exceeds maxSize, the larger
\* side of the canvas is exactly maxSize and the other side is within one
\* pixel of (smaller side * maxSize / larger side).
C1_LargerSideBecomesMaxSize ==
    \A c \in Calls :
        LET cs == call[c]
            w == Decoded(cs).w
            h == Decoded(cs).h
            m == cs.maxSize
        IN  (HasCanvas(cs) /\ Max(w, h) > m) =>
                /\ Max(cs.canvas.width, cs.canvas.height) = m
                /\ w >= h => /\ cs.canvas.width = m
                             /\ Abs(cs.canvas.height * w - h * m) <= w
                /\ h >= w => /\ cs.canvas.height = m
                             /\ Abs(cs.canvas.width * h - w * m) <= h

\* a landscape image larger than maxSize was drawn, its height scaled to a
\* value that is no integer before rounding
C1_Witness ==
    \E c \in Calls :
        /\ call[c].canvas.state = "drawn"
        /\ Decoded(call[c]).w > Decoded(call[c]).h
        /\ Decoded(call[c]).w > call[c].maxSize
        /\ (Decoded(call[c]).h * call[c].maxSize) % Decoded(call[c]).w # 0
        /\ call[c].canvas.height >= 1

\* C2: when neither side of the decoded image exceeds maxSize, the canvas
\* has the image's own dimensions.
C2_NoUpscaling ==
    \A c \in Calls :
        LET cs == call[c]
        IN  (HasCanvas(cs) /\ Max(Decoded(cs).w, Decoded(cs).h) <= cs.maxSize) =>
                /\ cs.canvas.width = Decoded(cs).w
                /\ cs.canvas.height = Decoded(cs).h

\* an image strictly smaller than maxSize on both sides was drawn
C2_Witness ==
    \E c \in Calls :
        /\ call[c].canvas.state = "drawn"
        /\ Decoded(call[c]).w < call[c].maxSize
        /\ Decoded(call[c]).h < Decoded(call[c]).w

\* the spellings of ".heic" and ".heif" in either letter case
LegacyExtensions ==
    {<<".", a, b, c, d>> : a \in {"h", "H"}, b \in {"e", "E"}, c \in {"i", "I"},
                           d \in {"c", "C", "f", "F"}}
HasLegacyExtension(name) ==
    Len(name) >= 5 /\ SubSeq(name, Len(name) - 4, Len(name)) \in LegacyExtensions

\* C3: isHeicFile is true exactly on the Files whose name ends in .heic or
\* .heif in any letter case or whose type is image/heic or image/heif, and
\* false on every other File, every string and every other value.
C3_IsHeicFileExactly ==
    probe.called =>
        (probe.ret <=>
            /\ probe.arg.kind = "File"
            /\ \/ HasLegacyExtension(probe.arg.name)
               \/ probe.arg.type \in {ImageHeic, ImageHeif})

\* isHeicFile accepted a File for its upper-case extension alone
C3_Witness ==
    /\ probe.called
    /\ probe.ret
    /\ probe.arg.kind = "File"
    /\ probe.arg.type = ImageJpeg
    /\ probe.arg.name = <<".", "h", "E", "i", "f">>

\* C4: a successful convertHeicToJpeg returns a handle of type image/jpeg
\* whose name is the input's name with a final .heic or .heif, in any letter
\* case, replaced by .jpg, and the input's name when it has no such ending.
C4_ConvertedNameAndType ==
    \A c \in Calls :
        LET cs == call[c]
            name == cs.input.name
        IN  cs.converted.state = "fulfilled" =>
                /\ cs.converted.value.kind = "File"
                /\ cs.converted.value.type = ImageJpeg
                /\ cs.converted.value.name =
                      IF HasLegacyExtension(name)
                      THEN SubSeq(name, 1, Len(name) - 5) \o DotJpg
                      ELSE name

\* a file named in mixed case was converted and renamed
C4_Witness ==
    \E c \in Calls :
        /\ call[c].converted.state = "fulfilled"
        /\ call[c].input.name = <<".", "h", "E", "i", "c">>
        /\ call[c].converted.value.name = DotJpg

\* the environments without a decoder: no global heic2any and no
\* window.heic2any
DecoderAbsent == ~env.heic2any /\ ~env.windowHeic2any
IsLegacyInput(cs) == cs.input.kind = "File" /\ isHeicFile(cs.input)

\* C5: with the decoder absent, a call on a legacy file rejects with the
\* error 'heic2any library is not loaded', with or without a window object;
\* the decoder is not invoked and the error is no conversion failure.
C5_AbsentDecoderIsDependencyMissing ==
    \A c \in Calls :
        LET cs == call[c]
        IN  (DecoderAbsent /\ cs.pc # "idle" /\ IsLegacyInput(cs)) =>
                /\ cs.decoderCalls = 0
                /\ cs.converted = Rejected(DependencyMissing)
                /\ cs.pc = "done" => cs.promise = Rejected(DependencyMissing)

\* the inputs on which the decoder gave nothing usable: it threw, rejected,
\* returned undefined or null, or an array without a first element
Unusable(answer) ==
    \/ answer.how \in {"throw", "reject"}
    \/ /\ answer.how = "fulfil"
       /\ \/ answer.value.kind = "nullish"
          \/ /\ answer.value.kind = "Array"
             /\ \/ Len(answer.value.elems) = 0
                \/ answer.value.elems[1].kind = "nullish"

\* the message of what the decoder threw or rejected with
CauseMessage(answer) ==
    IF answer.how = "fulfil" THEN <<"Conversion returned no result">>
    ELSE IF answer.value.kind = "error" THEN answer.value.message
    ELSE IF answer.value.kind = "text" THEN answer.value.text
    ELSE << >>

IsConversionFailed(e) ==
    /\ e.kind = "error"
    /\ e.name = "Error"
    /\ Len(e.message) >= 1
    /\ e.message[1] = "Failed to convert HEIC file: "

\* C6: whenever the decoder, being present, throws, rejects, returns nothing
\* or returns an array without a first element, convertHeicToJpeg rejects
\* with 'Failed to convert HEIC file: ...' carrying the cause's message, and
\* returns no handle.
C6_DecoderFailureIsConversionFailed ==
    \A c \in Calls :
        LET cs == call[c]
        IN  (cs.decoderAnswer # NoValue /\ Unusable(cs.decoderAnswer)) =>
                /\ cs.converted.state = "rejected"
                /\ IsConversionFailed(cs.converted.value)
                /\ endsWith(cs.converted.value.message, CauseMessage(cs.decoderAnswer))

\* C7: on a legacy file, the file read, the image decode and the canvas draw
\* happen only after the decoder call has succeeded, and the file read is
\* given the converted JPEG handle, not the original.
C7_ConversionBeforeResize ==
    \A c \in Calls :
        LET cs == call[c]
        IN  (IsLegacyInput(cs) /\ (cs.readStarts > 0 \/ cs.decodeStarts > 0 \/ cs.draws > 0)) =>
                /\ cs.decoder = "fulfilled"
                /\ cs.converted.state = "fulfilled"
                /\ cs.readStarts > 0
                /\ cs.readerFile = cs.converted.value
                /\ cs.readerFile # cs.input
                /\ cs.readerFile.type = ImageJpeg

\* a legacy file went through conversion, read, decode and draw
C7_Witness ==
    \E c \in Calls :
        /\ IsLegacyInput(call[c])
        /\ call[c].input.type = ImageHeic
        /\ call[c].draws = 1
        /\ call[c].promise.state = "fulfilled"

\* C8: a call has at most one outcome: resolve and reject are called at most
\* once between them, a fulfilled call holds an encoded string and was never
\* rejected, and a rejected call holds an error and was never resolved.
C8_SingleOutcome ==
    \A c \in Calls :
        LET cs == call[c]
        IN  /\ cs.resolveCalls + cs.rejectCalls <= 1
            /\ cs.promise.state = "pending" => cs.resolveCalls + cs.rejectCalls = 0
            /\ cs.promise.state = "fulfilled" =>
                  cs.promise.value.kind = "string" /\ cs.rejectCalls = 0
            /\ cs.promise.state = "rejected" =>
                  cs.promise.value.kind = "error" /\ cs.resolveCalls = 0

\* a call was rejected by a failed file read
C8_Witness ==
    \E c \in Calls :
        /\ call[c].promise = Rejected(ReadFailure)
        /\ call[c].rejectCalls = 1
        /\ call[c].pc = "done"

\* C9: an input that is neither a File nor a string is rejected with
\* 'Invalid input: expected File or data URL string', and neither the
\* decoder, nor a file read, nor an image decode is started.
C9_OtherInputIsInvalid ==
    \A c \in Calls :
        LET cs == call[c]
        IN  (cs.pc # "idle" /\ cs.input.kind \notin {"File", "string"}) =>
                /\ cs.promise = Rejected(InvalidInput)
                /\ cs.decoderCalls = 0
                /\ cs.readStarts = 0
                /\ cs.decodeStarts = 0

\* a call was made with a value that is neither a File nor a string
C9_Witness ==
    \E c \in Calls :
        /\ call[c].pc = "done"
        /\ call[c].input = OtherValue
        /\ call[c].rejectCalls = 1

\* C10: every call settles in the end, whatever each capability answers and
\* whether the canvas works or not.  A call whose pc is done waits for no
\* capability and no handler of it will run again, so it must have settled.
C10_FinishedCallHasSettled ==
    \A c \in Calls : call[c].pc = "done" => call[c].promise.state # "pending"

\* the picture a call's own img is to decode: the input's, or for a legacy
\* file the first blob the decoder gave to this call
OwnSource(cs) ==
    IF cs.input.kind = "File" /\ isHeicFile(cs.input)
    THEN IF cs.decoderAnswer.value.kind = "Array"
         THEN cs.decoderAnswer.value.elems[1].content
         ELSE cs.decoderAnswer.value.content
    ELSE cs.input.content

\* the outcome of a finished call that ran alone on the same input with the
\* same answers of the decoder, the reader and the canvas
OutcomeAlone(cs) ==
    IF cs.input.kind \notin {"File", "string"} THEN Rejected(InvalidInput)
    ELSE IF cs.converted.state = "rejected" THEN Rejected(cs.converted.value)
    ELSE IF cs.reader = "failed" THEN Rejected(ReadFailure)
    ELSE IF ~OwnSource(cs).ok THEN Rejected(DecodeFailure)
    ELSE IF cs.uncaught # NoValue THEN Pending
    ELSE Fulfilled(toDataURL(TargetSize(OwnSource(cs).w, OwnSource(cs).h,
                                        cs.maxSize).width,
                             TargetSize(OwnSource(cs).w, OwnSource(cs).h,
                                        cs.maxSize).height))

\* C11: with calls running concurrently in any interleaving, each call's
\* reader reads its own file, its img decodes its own source, and its outcome
\* is the one it has when run alone.
C11_CallsDoNotInteract ==
    \A c \in Calls :
        LET cs == call[c]
        IN  /\ cs.reader # "none" =>
                  cs.readerFile = IF cs.converted.state = "fulfilled"
                                  THEN cs.converted.value ELSE cs.input
            /\ cs.img # "none" => cs.imgSrc = DataUrl(OwnSource(cs))
            /\ cs.pc = "done" => cs.promise = OutcomeAlone(cs)

\* a call on one file has resolved while a call on another file, of another
\* picture, is between its file read and its image load
C11_Witness ==
    \E c, d \in Calls :
        /\ c # d
        /\ call[c].pc = "done"
        /\ call[c].promise.state = "fulfilled"
        /\ call[c].input.kind = "File"
        /\ call[d].pc = "decoding"
        /\ call[d].input.kind = "File"
        /\ call[d].imgSrc # call[c].imgSrc

\* C12: when a call resolves with a canvas of w' by h' pixels, a call on its
\* output with the same maxSize resolves with a canvas of w' by h' pixels
\* (the canvas of the second call being one that works).
C12_RerunKeepsDimensions ==
    (call[Second].pc = "done" /\ call[Second].uncaught = NoValue) =>
        /\ call[Second].promise.state = "fulfilled"
        /\ call[Second].canvas.width = call[First].canvas.width
        /\ call[Second].canvas.height = call[First].canvas.height

\* n / d rounded to the nearest integer, a half rounded up
RoundHalfUp(n, d) == (2 * n + d) \div (2 * d)

\* the reference rule of the new dimensions, with round as given
ReferenceSize(w, h, m, round(_, _)) ==
    IF w > h /\ w > m THEN [width |-> m, height |-> round(h * m, w)]
    ELSE IF h >= w /\ h > m THEN [width |-> round(w * m, h), height |-> m]
    ELSE [width |-> w, height |-> h]

CanvasSize(cs) == [width |-> cs.canvas.width, height |-> cs.canvas.height]

\* C13: the new dimensions are those of the reference rule, the scaled side
\* being the exact quotient rounded to the nearest integer, a half rounded up.
C13_RoundHalfUpRule ==
    \A c \in Calls :
        LET cs == call[c]
        IN  HasCanvas(cs) =>
                CanvasSize(cs) = ReferenceSize(Decoded(cs).w, Decoded(cs).h,
                                               cs.maxSize, RoundHalfUp)

\* C14: in a call, the decoder is invoked at most once, the file read is
\* started at most once and the image decode is started at most once,
\* whatever their outcomes.
C14_EachStepAtMostOnce ==
    \A c \in Calls :
        /\ call[c].decoderCalls <= 1
        /\ call[c].readStarts <= 1
        /\ call[c].decodeStarts <= 1

\* a call went through the decoder, the read and the decode, once each, and
\* the decode failed
C14_Witness ==
    \E c \in Calls :
        /\ call[c].pc = "done"
        /\ call[c].decoderCalls = 1
        /\ call[c].readStarts = 1
        /\ call[c].decodeStarts = 1
        /\ call[c].img = "failed"

NothingDrawn(cs) == cs.canvas.state = "none" /\ cs.draws = 0 /\ cs.resolveCalls = 0

\* C15: after a failed conversion no read, decode or draw is started; after
\* a failed read the call rejects with 'Failed to read file' and no decode
\* or draw is started; after a failed decode the call rejects with 'Failed
\* to load image' and no canvas is drawn or exported.
C15_FailureStopsThePipeline ==
    \A c \in Calls :
        LET cs == call[c]
        IN  /\ cs.converted.state = "rejected" =>
                  /\ cs.readStarts = 0
                  /\ cs.decodeStarts = 0
                  /\ NothingDrawn(cs)
                  /\ cs.pc = "done" => cs.promise = Rejected(cs.converted.value)
            /\ cs.reader = "failed" =>
                  /\ cs.promise = Rejected(ReadFailure)
                  /\ cs.decodeStarts = 0
                  /\ cs.img = "none"
                  /\ NothingDrawn(cs)
            /\ cs.img = "failed" =>
                  /\ cs.promise = Rejected(DecodeFailure)
                  /\ NothingDrawn(cs)

\* the read of a converted file succeeded and its decode failed
C15_Witness ==
    \E c \in Calls :
        /\ call[c].converted.state = "fulfilled"
        /\ call[c].reader = "loaded"
        /\ call[c].img = "failed"
        /\ call[c].promise.state = "rejected"

\* whether the message holds the part
Includes(message, part) ==
    \E i \in 1 .. Len(message) + 1 :
        /\ i + Len(part) - 1 <= Len(message)
        /\ SubSeq(message, i, i + Len(part) - 1) = part

\* whether the error's message begins with the words
BeginsWith(e, words) ==
    /\ e.kind = "error"
    /\ Len(e.message) >= 1
    /\ e.message[1] = words

\* C16: the rejection of a failed conversion, of a failed read and of a
\* failed decode names its stage, and includes the message of its cause
\* where the cause has one (the decoder's error, reader.error).
C16_RejectionNamesStageAndCause ==
    \A c \in Calls :
        LET cs == call[c]
        IN  /\ ( /\ cs.decoderAnswer # NoValue
                 /\ cs.decoderAnswer.how \in {"throw", "reject"}
                 /\ cs.decoderAnswer.value.kind # "nullish" ) =>
                  /\ cs.converted.state = "rejected"
                  /\ BeginsWith(cs.converted.value, "Failed to convert HEIC file: ")
                  /\ Includes(cs.converted.value.message, CauseMessage(cs.decoderAnswer))
            /\ cs.reader = "failed" =>
                  /\ cs.promise.state = "rejected"
                  /\ BeginsWith(cs.promise.value, "Failed to read file")
                  /\ Includes(cs.promise.value.message, cs.readerError.message)
            /\ cs.img = "failed" =>
                  /\ cs.promise.state = "rejected"
                  /\ BeginsWith(cs.promise.value, "Failed to load image")

\* C17: both sides of the canvas are at least 1 for every decoded image and
\* every maxSize.
C17_TargetAtLeastOne ==
    \A c \in Calls :
        HasCanvas(call[c]) => call[c].canvas.width >= 1 /\ call[c].canvas.height >= 1

\* C18: the handle of a successful conversion is not accepted by isHeicFile:
\* its lower-cased name ends in neither '.heic' nor '.heif' and its type is
\* 'image/jpeg'; the file handed to the reader is never a legacy one.
C18_ConvertedIsNotLegacy ==
    \A c \in Calls :
        LET cs == call[c]
        IN  /\ cs.converted.state = "fulfilled" =>
                  /\ isHeicFile(cs.input)
                  /\ ~isHeicFile(cs.converted.value)
                  /\ ~HasLegacyExtension(cs.converted.value.name)
                  /\ cs.converted.value.type = ImageJpeg
            /\ cs.readerFile # NoValue => ~isHeicFile(cs.readerFile)

\* a file legacy by its name and by its type was converted and its
\* conversion handed to the reader
C18_Witness ==
    \E c \in Calls :
        /\ call[c].converted.state = "fulfilled"
        /\ endsWith(toLowerCase(call[c].input.name), DotHeic)
        /\ call[c].input.type = ImageHeic
        /\ call[c].reader = "loading"
        /\ call[c].readerFile = call[c].converted.value

=============================================================================
